---- MODULE Spec2Model ----
(***************************************************************************)
(* evdevremapkeys: the remap engine of src/evdevremapkeys.py.              *)
(*                                                                         *)
(* Four specifications share this module:                                  *)
(*   SpecNorm  load_config's normalisation of one device's remappings      *)
(*             (normalize_config, normalize_value, resolve_ecodes) applied *)
(*             to bounded raw configurations;                              *)
(*   Spec      run_loop: load_config, register_device, the asyncio loop    *)
(*             running the handle_events pumps and the repeat_event tasks, *)
(*             one rule per source code;                                   *)
(*   SpecFan   the same engine with two rules per source code;             *)
(*   SpecLife  the same engine with start-up errors, read failures,        *)
(*             SIGTERM, KeyboardInterrupt and shutdown.                    *)
(*                                                                         *)
(* Python values are modelled as follows.  A dict is a function whose      *)
(* domain is the set of keys present.  The value of the key 'value' is a   *)
(* tagged record [tag, items]: tag "none" is None (yaml null), tag "int"   *)
(* is the scalar items[1], tag "list" is the list items.  The value of     *)
(* 'repeat' is [tag, b, d]: a bool b or a dict d.  An element of a rule    *)
(* list is [tag, name, d]: the bare string name or the dict d.             *)
(***************************************************************************)
EXTENDS Integers, Sequences, FiniteSets, TLC

(***************************************************************************)
(* Bounds of the model.                                                    *)
(***************************************************************************)
\* longest rule list drawn for SpecNorm
MaxRules == 2
\* configured devices
NumDevices == 2
\* batches read from all devices together
MaxReads == 2
\* longest batch one read returns
MaxBatch == 2
\* cycles one repeat task runs before the model stops firing its timer
MaxCycles == 2
\* SIGTERMs delivered
MaxSigterm == 2

(***************************************************************************)
(* Python helpers.                                                         *)
(***************************************************************************)
\* dict.get(k, default)
Get(d, k, default) == IF k \in DOMAIN d THEN d[k] ELSE default

\* d[k] = v   (insert or overwrite)
Put(d, k, v) == [x \in (DOMAIN d) \cup {k} |-> IF x = k THEN v ELSE d[x]]

\* the empty dict
EmptyDict == [x \in {} |-> 0]

NoneValue == [tag |-> "none", items |-> <<>>]
IntValue(v) == [tag |-> "int", items |-> <<v>>]
ListValue(s) == [tag |-> "list", items |-> s]

StrMapping(n) == [tag |-> "str", name |-> n, d |-> EmptyDict]
DictMapping(d) == [tag |-> "dict", name |-> "", d |-> d]

BoolRepeat(b) == [tag |-> "bool", b |-> b, d |-> EmptyDict]
DictRepeat(d) == [tag |-> "dict", b |-> FALSE, d |-> d]

\* evdev.ecodes.ecodes: symbolic name -> number (the names the model uses)
Names == {"EV_KEY", "EV_REL", "KEY_1", "KEY_A", "KEY_B", "KEY_C"}
ecodes ==
  [n \in Names |->
     CASE n = "EV_KEY" -> 1
       [] n = "EV_REL" -> 2
       [] n = "KEY_1"  -> 2
       [] n = "KEY_A"  -> 30
       [] n = "KEY_B"  -> 48
       [] n = "KEY_C"  -> 46]

(***************************************************************************)
(* normalize_value: a mapping without 'value', with value None or with a   *)
(* list value is left alone; any other value v becomes [v].                *)
(***************************************************************************)
\* mutant: the test "type(value) is list" is missing, a list is wrapped again
\* (tag "nested": a list holding a list)
normalize_value_rewrap(mapping) ==
  LET value == Get(mapping, "value", NoneValue)
  IN  IF value.tag = "none"
      THEN mapping
      ELSE [mapping EXCEPT !["value"] =
              [tag |-> IF value.tag = "int" THEN "list" ELSE "nested",
               items |-> value.items]]

normalize_value(mapping) ==
  LET value == Get(mapping, "value", NoneValue)
  IN  IF value.tag = "none" \/ value.tag = "list"
      THEN mapping
      ELSE [mapping EXCEPT !["value"] = ListValue(<<mapping["value"].items[1]>>)]

(***************************************************************************)
(* normalize_config: per source key, in list order, a bare string X        *)
(* becomes {'code': X} and a dict goes through normalize_value.            *)
(***************************************************************************)
normalize_mapping(mapping) ==
  IF mapping.tag = "str"
  THEN DictMapping([code |-> mapping.name])
  ELSE DictMapping(normalize_value(mapping.d))

\* mutant: the new list is built back to front
normalize_list_reversed(mappings) ==
  [i \in 1..Len(mappings) |-> normalize_mapping(mappings[Len(mappings) + 1 - i])]

normalize_list(mappings) ==
  [i \in 1..Len(mappings) |-> normalize_mapping(mappings[i])]

normalize_config(remappings) ==
  [key \in DOMAIN remappings |-> normalize_list(remappings[key])]

(***************************************************************************)
(* resolve_ecodes: source keys, 'code' and 'type' go from names to numbers.*)
(***************************************************************************)
resolve_mapping(mapping) ==
  DictMapping([k \in DOMAIN mapping.d |->
                 IF k \in {"code", "type"} THEN ecodes[mapping.d[k]]
                 ELSE mapping.d[k]])

KeyOf(by_name, num) == CHOOSE key \in DOMAIN by_name : ecodes[key] = num

resolve_ecodes(by_name) ==
  [num \in {ecodes[key] : key \in DOMAIN by_name} |->
     [i \in 1..Len(by_name[KeyOf(by_name, num)]) |->
        resolve_mapping(by_name[KeyOf(by_name, num)][i])]]

KEY_1 == ecodes["KEY_1"]
KEY_A == ecodes["KEY_A"]
KEY_B == ecodes["KEY_B"]

(***************************************************************************)
(* The engine.                                                             *)
(***************************************************************************)
EV_SYN == 0
EV_KEY == 1
EV_REL == 2
SYN_REPORT == 0

VARIABLES
  pc,            \* run_loop's position: "load", "register", "run",
                 \* "interrupted", "closed" (loop.close() done), "error"
  config,        \* config['devices']: per device [ident, remappings]
  regidx,        \* devices run_loop has passed to register_device
  grabbed,       \* devices whose input is grabbed (input.grab() .. ungrab())
  uinputs,       \* devices whose UInput exists (UInput(..) .. close())
  tasks,         \* every asyncio Task created, by id
  ready,         \* the loop's queue of scheduled task steps (FIFO)
  inbox,         \* per device: the batch its pending read resolved to
  repeat_tasks,  \* the module-level dict: code -> task id (0: no entry)
  objs,          \* the event objects, by event id, as they are now
  inlog,         \* the events as they were read, by event id (history)
  out,           \* per device: what was written to its UInput (history)
  gens,          \* the shutdown coroutine objects: state and gathered tasks
  sigterms,      \* SIGTERMs delivered to the handler so far
  reads,         \* batches read so far (bounded by MaxReads)
  nraw,          \* SpecNorm: the raw remappings handed to normalize_config
  nnorm,         \* SpecNorm: normalize_config(nraw)
  nagain,        \* SpecNorm: normalize_config(nnorm)
  nloaded,       \* SpecNorm: resolve_ecodes(nnorm)
  npc            \* SpecNorm: position

engineVars == <<pc, config, regidx, grabbed, uinputs, tasks, ready, inbox,
                repeat_tasks, objs, inlog, out, gens, sigterms, reads>>
normVars == <<nraw, nnorm, nagain, nloaded, npc>>
vars == <<engineVars, normVars>>

Devices == 1..NumDevices

\* del d[k]
Del(d, k) == [x \in (DOMAIN d) \ {k} |-> d[x]]

(***************************************************************************)
(* asyncio Tasks.  state: "new" (created, first step queued), "reading"    *)
(* (pump suspended in async_read), "sleeping" (repeat task suspended in    *)
(* asyncio.sleep), "waiting" (shutdown suspended in gather), "ready" (the  *)
(* awaited future is done, the wakeup is queued), "failing" (the awaited   *)
(* read raised, the wakeup is queued), "cancelling" (cancel() was called,  *)
(* the step that throws CancelledError is queued), and the final states    *)
(* "done", "cancelled", "failed".                                          *)
(***************************************************************************)
Final == {"done", "cancelled", "failed"}

BlankTask ==
  [kind |-> "", state |-> "new", dev |-> 0, obj |-> 0, count |-> 0,
   values |-> <<>>, src |-> 0, rule |-> 0, key |-> 0, cycles |-> 0, gen |-> ""]

PumpTask(d) == [BlankTask EXCEPT !.kind = "pump", !.dev = d]

RepeatTask(d, e, count, values, src, rule, key) ==
  [BlankTask EXCEPT !.kind = "repeat", !.dev = d, !.obj = e, !.count = count,
                    !.values = values, !.src = src, !.rule = rule, !.key = key]

ShutdownTask(g) == [BlankTask EXCEPT !.kind = "shutdown", !.gen = g]

\* mutant: cancel() does not test whether the task is finished
Task_cancel_finished(st, t) ==
  LET s == st.tasks[t].state
  IN  IF s = "waiting" THEN st
      ELSE IF s \in {"reading", "sleeping"} \cup Final
      THEN [st EXCEPT !.tasks[t].state = "cancelling", !.ready = Append(@, t)]
      ELSE [st EXCEPT !.tasks[t].state = "cancelling"]

\* Task.cancel(): a finished task is left alone; a task suspended on a read
\* or a sleep has that future cancelled, which queues its wakeup; a task
\* whose step is already queued gets CancelledError in that step; a task
\* suspended in gather passes the request on to the gathered tasks and is
\* itself resumed by gather's result
Task_cancel(st, t) ==
  LET s == st.tasks[t].state
  IN  IF s \in Final \/ s = "waiting" THEN st
      ELSE IF s \in {"reading", "sleeping"}
      THEN [st EXCEPT !.tasks[t].state = "cancelling", !.ready = Append(@, t)]
      ELSE [st EXCEPT !.tasks[t].state = "cancelling"]

\* asyncio.ensure_future(coro): the new Task, its first step queued
ensure_future(st, task) ==
  [st EXCEPT !.tasks = Append(@, task), !.ready = Append(@, Len(st.tasks) + 1)]

(***************************************************************************)
(* Output.  An entry of out[d] is one write to the UInput: k = "ev" is     *)
(* output.write_event(event), k = "syn" is output.syn().  by is the task   *)
(* that wrote, src the id of the read event it wrote for, rule the index   *)
(* of the rule in remappings[code] (0: handle_events' pass-through).       *)
(***************************************************************************)
write_event(ev, by, e, rule) ==
  [k |-> "ev", type |-> ev.type, code |-> ev.code, value |-> ev.value,
   by |-> by, src |-> e, rule |-> rule]

syn(by, e, rule) ==
  [k |-> "syn", type |-> EV_SYN, code |-> SYN_REPORT, value |-> 0,
   by |-> by, src |-> e, rule |-> rule]

\* mutant: one syn() after the loop instead of one per value
emit_values_one_syn(ev, values, by, e, rule) ==
  [j \in 1..(Len(values) + 1) |->
     IF j <= Len(values)
     THEN write_event([ev EXCEPT !.value = values[j]], by, e, rule)
     ELSE syn(by, e, rule)]

\* for value in values: event.value = value; write_event(event); syn()
emit_values(ev, values, by, e, rule) ==
  [j \in 1..(2 * Len(values)) |->
     IF j % 2 = 1
     THEN write_event([ev EXCEPT !.value = values[(j + 1) \div 2]], by, e, rule)
     ELSE syn(by, e, rule)]

(***************************************************************************)
(* remap_event.  st carries what the call reads and changes: ev (the event *)
(* object), out (the device's output), reg (repeat_tasks), tasks, ready.   *)
(* ctx is [d, e, by]: the device, the event id, the pump's task id.        *)
(***************************************************************************)
Truthy(repeat) ==
  IF repeat.tag = "bool" THEN repeat.b ELSE DOMAIN repeat.d # {}

\* one iteration of the loop over remappings[event.code], past the
\* ignore_depress test
remap_rule(st, remapping, i, ctx) ==
  LET pressed == st.ev.value = 1
      original_code == st.ev.code
      type == Get(remapping, "type", 0)
      ev1 == [st.ev EXCEPT !.code = remapping["code"],
                           !.type = IF type # 0 THEN type ELSE @]
      value == Get(remapping, "value", NoneValue)
      values == IF value.tag = "list" /\ value.items # <<>>
                THEN value.items ELSE <<st.ev.value>>
      repeat == Get(remapping, "repeat", BoolRepeat(FALSE))
      count == Get(remapping, "count", 0)
      repeat_task == Get(st.reg, original_code, 0)
      popped == [st EXCEPT !.ev = ev1, !.reg = Del(@, original_code)]
      cancelled == IF repeat_task # 0 THEN Task_cancel(popped, repeat_task)
                   ELSE popped
      started == ensure_future(
                   [cancelled EXCEPT
                      !.reg = Put(@, original_code, Len(cancelled.tasks) + 1)],
                   RepeatTask(ctx.d, ctx.e, count, values, ctx.code, i,
                              original_code))
  IN  IF Truthy(repeat)
      THEN IF pressed THEN started ELSE cancelled
      ELSE [st EXCEPT
              !.ev = [ev1 EXCEPT !.value = values[Len(values)]],
              !.out = @ \o emit_values(ev1, values, ctx.by, ctx.e, i)]

\* mutant: the rules are taken last to first
RECURSIVE remap_rules_reversed(_, _, _, _)
remap_rules_reversed(st, rules, i, ctx) ==
  IF i > Len(rules) THEN st
  ELSE LET k == Len(rules) + 1 - i
           remapping == rules[k].d
           pressed == st.ev.value = 1
           ignore_depress == Get(remapping, "ignore_depress", FALSE)
       IN  IF ignore_depress /\ ~pressed
           THEN st
           ELSE remap_rules_reversed(remap_rule(st, remapping, k, ctx), rules,
                                     i + 1, ctx)

RECURSIVE remap_rules(_, _, _, _)
remap_rules(st, rules, i, ctx) ==
  IF i > Len(rules) THEN st
  ELSE LET remapping == rules[i].d
           pressed == st.ev.value = 1
           ignore_depress == Get(remapping, "ignore_depress", FALSE)
       IN  IF ignore_depress /\ ~pressed
           THEN st
           ELSE remap_rules(remap_rule(st, remapping, i, ctx), rules, i + 1, ctx)

remap_event(st, remappings, ctx) ==
  remap_rules(st, remappings[st.ev.code], 1, ctx)

(***************************************************************************)
(* handle_events: the body of "for event in events", then the whole batch. *)
(* st also carries objs and inlog; the event read gets the next event id.  *)
(***************************************************************************)
NoEvent == [type |-> 0, code |-> 0, value |-> 0]

\* mutant: the test "event.type == ecodes.EV_KEY" is missing
handle_event_any_type(st, event, remappings, d, by) ==
  LET e == Len(st.inlog) + 1
      st0 == [st EXCEPT !.ev = event,
                        !.inlog = Append(@, [dev |-> d, type |-> event.type,
                                             code |-> event.code,
                                             value |-> event.value])]
      ctx == [d |-> d, e |-> e, by |-> by, code |-> event.code]
      after == IF event.code \in DOMAIN remappings
               THEN remap_event(st0, remappings, ctx)
               ELSE [st0 EXCEPT !.out = @ \o <<write_event(event, by, e, 0),
                                               syn(by, e, 0)>>]
  IN  [after EXCEPT !.objs = Append(@, after.ev)]

handle_event(st, event, remappings, d, by) ==
  LET e == Len(st.inlog) + 1
      st0 == [st EXCEPT !.ev = event,
                        !.inlog = Append(@, [dev |-> d, type |-> event.type,
                                             code |-> event.code,
                                             value |-> event.value])]
      ctx == [d |-> d, e |-> e, by |-> by, code |-> event.code]
      after == IF event.type = EV_KEY /\ event.code \in DOMAIN remappings
               THEN remap_event(st0, remappings, ctx)
               ELSE [st0 EXCEPT !.out = @ \o <<write_event(event, by, e, 0),
                                               syn(by, e, 0)>>]
  IN  [after EXCEPT !.objs = Append(@, after.ev)]

RECURSIVE handle_batch(_, _, _, _, _, _)
handle_batch(st, events, j, remappings, d, by) ==
  IF j > Len(events) THEN st
  ELSE handle_batch(handle_event(st, events[j], remappings, d, by),
                    events, j + 1, remappings, d, by)

(***************************************************************************)
(* repeat_event: one pass of the while loop, from the test of count to the *)
(* sleep; first is TRUE in the task's first step (if count==0: count=-1).  *)
(***************************************************************************)
\* mutant: count is decremented once per value
repeat_event_per_value(st, t, first) ==
  LET task == st.tasks[t]
      count == IF first /\ task.count = 0 THEN -1 ELSE task.count
      event == st.objs[task.obj]
  IN  IF count # 0
      THEN [st EXCEPT
              !.tasks[t].count = count - Len(task.values),
              !.tasks[t].cycles = @ + 1,
              !.tasks[t].state = "sleeping",
              !.objs[task.obj].value = task.values[Len(task.values)],
              !.out = @ \o emit_values(event, task.values, t, task.obj,
                                       task.rule)]
      ELSE [st EXCEPT !.tasks[t].count = count, !.tasks[t].state = "done"]

repeat_event(st, t, first) ==
  LET task == st.tasks[t]
      count == IF first /\ task.count = 0 THEN -1 ELSE task.count
      event == st.objs[task.obj]
  IN  IF count # 0
      THEN [st EXCEPT
              !.tasks[t].count = count - 1,
              !.tasks[t].cycles = @ + 1,
              !.tasks[t].state = "sleeping",
              !.objs[task.obj].value = task.values[Len(task.values)],
              !.out = @ \o emit_values(event, task.values, t, task.obj,
                                       task.rule)]
      ELSE [st EXCEPT !.tasks[t].count = count, !.tasks[t].state = "done"]

(***************************************************************************)
(* shutdown.  A shutdown coroutine object g ("sigterm": the one object     *)
(* run_loop builds when it registers the handler; "kbd": the one built in  *)
(* the except branch) is "fresh", suspended in "gather" with the locals    *)
(* tasks = children, or "finished".                                        *)
(***************************************************************************)
\* mutant: only the pumps are cancelled
RECURSIVE cancel_all_pumps(_, _, _)
cancel_all_pumps(st, n, self) ==
  IF n = 0 THEN st
  ELSE LET prev == cancel_all_pumps(st, n - 1, self)
       IN  IF n = self \/ prev.tasks[n].kind # "pump" THEN prev
           ELSE Task_cancel(prev, n)

RECURSIVE cancel_all(_, _, _)
cancel_all(st, n, self) ==
  IF n = 0 THEN st
  ELSE LET prev == cancel_all(st, n - 1, self)
       IN  IF n = self THEN prev ELSE Task_cancel(prev, n)

AllFinal(ts, children) == \A c \in children : ts[c].state \in Final

\* the code of shutdown up to the yield from gather
shutdown_begin(st, t) ==
  LET g == st.tasks[t].gen
      children == (1..Len(st.tasks)) \ {t}
      c == cancel_all(st, Len(st.tasks), t)
  IN  [c EXCEPT !.tasks[t].state = "waiting",
                !.gens[g] = [state |-> "gather", children |-> children]]

\* the code of shutdown after gather: loop.stop()
shutdown_end(st, t) ==
  [st EXCEPT !.tasks[t].state = "done",
             !.gens[st.tasks[t].gen].state = "finished",
             !.stopped = TRUE]

\* one step of a Task wrapping the shutdown coroutine object g
shutdown_step(st, t) ==
  LET g == st.tasks[t].gen
      s == st.tasks[t].state
      gs == st.gens[g].state
  IN  CASE s = "cancelling" ->
             \* CancelledError is thrown into the generator; the Task that
             \* run_until_complete waits for schedules its done-callback
             [st EXCEPT !.tasks[t].state = "cancelled",
                        !.gens[g].state = "finished",
                        !.ready = IF g = "kbd" THEN Append(@, 0) ELSE @]
        [] s = "new" /\ gs = "fresh" -> shutdown_begin(st, t)
        [] s = "new" /\ gs = "gather" ->
             \* a second Task resumes the suspended generator inside the
             \* gather future's __iter__
             IF AllFinal(st.tasks, st.gens[g].children)
             THEN shutdown_end(st, t)
             ELSE [st EXCEPT !.tasks[t].state = "failed",
                             !.gens[g].state = "finished"]
        [] s = "ready" /\ gs = "gather" -> shutdown_end(st, t)
        [] OTHER -> \* the generator is exhausted: StopIteration at once
             [st EXCEPT !.tasks[t].state = "done"]

\* gather's done-callbacks: a shutdown Task suspended in gather is resumed
\* once every gathered task is final
RECURSIVE wake_gather(_, _)
wake_gather(st, n) ==
  IF n = 0 THEN st
  ELSE LET prev == wake_gather(st, n - 1)
           task == prev.tasks[n]
       IN  IF /\ task.kind = "shutdown"
              /\ task.state = "waiting"
              /\ AllFinal(prev.tasks, prev.gens[task.gen].children)
           THEN [prev EXCEPT !.tasks[n].state = "ready",
                             !.ready = Append(@, n)]
           ELSE prev

(***************************************************************************)
(* Configurations and inputs drawn by the model.                           *)
(***************************************************************************)
\* ignore_depress with an unbounded repeat
RL_ignore_repeat ==
  <<DictMapping([code |-> "KEY_A", ignore_depress |-> TRUE,
                 repeat |-> BoolRepeat(TRUE)])>>
\* a repeat bounded by the rule's count, two values per cycle
RL_bounded ==
  <<DictMapping([code |-> "KEY_A", repeat |-> BoolRepeat(TRUE), count |-> 2,
                 value |-> ListValue(<<1, 0>>)])>>
\* a plain rule of two values
RL_plain_values ==
  <<DictMapping([code |-> "KEY_A", value |-> ListValue(<<1, 0>>)])>>
\* a repeat of one cycle
RL_once ==
  <<DictMapping([code |-> "KEY_A", repeat |-> BoolRepeat(TRUE), count |-> 1])>>
\* repeat given as an object holding the count
RL_nested ==
  <<DictMapping([code |-> "KEY_A", repeat |-> DictRepeat([count |-> 1])])>>
\* a repeat rule followed by a plain rule
RL_repeat_plain ==
  <<DictMapping([code |-> "KEY_A", repeat |-> BoolRepeat(TRUE), count |-> 1]),
    StrMapping("KEY_B")>>
\* two plain rules, the first with a scalar value
RL_plain_plain ==
  <<DictMapping([code |-> "KEY_A", value |-> IntValue(0)]), StrMapping("KEY_B")>>
\* two repeat rules
RL_repeat_repeat ==
  <<DictMapping([code |-> "KEY_A", repeat |-> BoolRepeat(TRUE), count |-> 1]),
    DictMapping([code |-> "KEY_B", repeat |-> BoolRepeat(TRUE), count |-> 1])>>
\* a plain ignore_depress rule followed by a repeat rule
RL_ignore_then_repeat ==
  <<DictMapping([code |-> "KEY_A", ignore_depress |-> TRUE]),
    DictMapping([code |-> "KEY_B", repeat |-> BoolRepeat(TRUE), count |-> 1])>>
\* a plain ignore_depress rule followed by a plain rule of two values
RL_ignore_then_plain ==
  <<DictMapping([code |-> "KEY_A", ignore_depress |-> TRUE]),
    DictMapping([code |-> "KEY_B", value |-> ListValue(<<1, 0>>)])>>

\* every device remaps KEY_1 by the same rule list
DeviceConfig(rl, ident) == [ident |-> ident, remappings |-> [KEY_1 |-> rl]]

ConfigsOf(lists) == {[d \in Devices |-> DeviceConfig(rl, TRUE)] : rl \in lists}

\* for Spec: one rule per source code
Configs == ConfigsOf({RL_ignore_repeat, RL_bounded, RL_nested, RL_plain_values})

\* for SpecFan: two rules per source code
FanConfigs ==
  ConfigsOf({RL_repeat_plain, RL_plain_plain, RL_repeat_repeat,
            RL_ignore_then_repeat, RL_ignore_then_plain})

\* for SpecLife: one rule list, every device identified or one device not
LifeConfigs ==
  {[d \in Devices |-> DeviceConfig(RL_once, d # bad)] :
     bad \in {0} \cup Devices}

\* what a device delivers: press and release of the remapped key, a key that
\* is not remapped, and a non-key event whose code number is in the table
InputEvents ==
  {[type |-> EV_KEY, code |-> KEY_1, value |-> 1],
   [type |-> EV_KEY, code |-> KEY_1, value |-> 0],
   [type |-> EV_KEY, code |-> KEY_A, value |-> 1],
   [type |-> EV_REL, code |-> KEY_1, value |-> 1]}

Press == [type |-> EV_KEY, code |-> KEY_1, value |-> 1]

\* a batch of device 1: any event, after up to MaxBatch - 1 presses of the
\* remapped key
BatchesOf(events) ==
  {[j \in 1..n |-> IF j < n THEN Press ELSE last] :
     n \in 1..MaxBatch, last \in events}

Batches == BatchesOf(InputEvents)

\* a batch of the other devices: a press or a release of the remapped key
KeyBatches ==
  {<<[type |-> EV_KEY, code |-> KEY_1, value |-> v]>> : v \in {0, 1}}

DeviceBatches(d) == IF d = 1 THEN Batches ELSE KeyBatches

\* in SpecFan: presses and releases of the remapped key only
FanBatches(d) ==
  IF d = 1 THEN BatchesOf({e \in InputEvents : e.type = EV_KEY /\ e.code = KEY_1})
  ELSE KeyBatches

\* in SpecLife: a press or a release on device 1, a press on the others
LifeBatches(d) == IF d = 1 THEN KeyBatches ELSE {<<Press>>}

(***************************************************************************)
(* run_loop, up to loop.run_forever().                                     *)
(***************************************************************************)
InitWith(configs) ==
  /\ pc = "load"
  /\ config \in configs
  /\ regidx = 0
  /\ grabbed = {}
  /\ uinputs = {}
  /\ tasks = <<>>
  /\ ready = <<>>
  /\ inbox = [d \in Devices |-> <<>>]
  /\ repeat_tasks = EmptyDict
  /\ objs = <<>>
  /\ inlog = <<>>
  /\ out = [d \in Devices |-> <<>>]
  /\ gens = [g \in {"sigterm", "kbd"} |-> [state |-> "fresh", children |-> {}]]
  /\ sigterms = 0
  /\ reads = 0
  /\ nraw = EmptyDict /\ nnorm = EmptyDict /\ nagain = EmptyDict
  /\ nloaded = EmptyDict /\ npc = "off"

Init == InitWith(Configs)

\* load_config: every device's remappings normalised, then resolved
load_config(devices) ==
  [d \in DOMAIN devices |->
     [devices[d] EXCEPT
        !.remappings = resolve_ecodes(normalize_config(@))]]

LoadConfig ==
  /\ pc = "load"
  /\ config' = load_config(config)
  /\ pc' = "register"
  /\ UNCHANGED <<regidx, grabbed, uinputs, tasks, ready, inbox, repeat_tasks,
                 objs, inlog, out, gens, sigterms, reads, normVars>>

\* find_input raises NameError for a device without input_name, input_phys
\* and input_fn; run_loop does not catch it
RegisterFails ==
  /\ pc = "register"
  /\ regidx < NumDevices
  /\ ~config[regidx + 1].ident
  /\ pc' = "error"
  /\ UNCHANGED <<config, regidx, grabbed, uinputs, tasks, ready, inbox,
                 repeat_tasks, objs, inlog, out, gens, sigterms, reads,
                 normVars>>

\* register_device: grab, create the UInput, start the pump
RegisterDevice ==
  /\ pc = "register"
  /\ regidx < NumDevices
  /\ config[regidx + 1].ident
  /\ regidx' = regidx + 1
  /\ grabbed' = grabbed \cup {regidx + 1}
  /\ uinputs' = uinputs \cup {regidx + 1}
  /\ tasks' = Append(tasks, PumpTask(regidx + 1))
  /\ ready' = Append(ready, Len(tasks) + 1)
  /\ UNCHANGED <<pc, config, inbox, repeat_tasks, objs, inlog, out, gens,
                 sigterms, reads, normVars>>

\* add_signal_handler(SIGTERM, ..); loop.run_forever()
RunForever ==
  /\ pc = "register"
  /\ regidx = NumDevices
  /\ pc' = "run"
  /\ UNCHANGED <<config, regidx, grabbed, uinputs, tasks, ready, inbox,
                 repeat_tasks, objs, inlog, out, gens, sigterms, reads,
                 normVars>>

(***************************************************************************)
(* The event loop.  One action is one callback of the loop, run to its end:*)
(* a task's step runs from one suspension point to the next.               *)
(***************************************************************************)
Running == pc \in {"run", "interrupted"}

\* what a step reads and changes, for a step that writes to device d
State(d) ==
  [ev |-> NoEvent, out |-> out[d], reg |-> repeat_tasks, tasks |-> tasks,
   ready |-> Tail(ready), objs |-> objs, inlog |-> inlog, gens |-> gens,
   stopped |-> FALSE]

\* the step's result becomes the next state; loop.stop() ends run_forever
\* (or run_until_complete) and run_loop's finally closes the loop
Commit(st, d) ==
  LET w == wake_gather(st, Len(st.tasks))
  IN  /\ tasks' = w.tasks
      /\ ready' = w.ready
      /\ repeat_tasks' = w.reg
      /\ objs' = w.objs
      /\ inlog' = w.inlog
      /\ out' = [out EXCEPT ![d] = w.out]
      /\ gens' = w.gens
      /\ pc' = IF w.stopped THEN "closed" ELSE pc

\* the device has events: the pump's read future gets its result
InputArrives(d, batch) ==
  /\ Running
  /\ reads < MaxReads
  /\ d \in 1..Len(tasks)
  /\ tasks[d].kind = "pump" /\ tasks[d].state = "reading"
  /\ inbox' = [inbox EXCEPT ![d] = batch]
  /\ tasks' = [tasks EXCEPT ![d].state = "ready"]
  /\ ready' = Append(ready, d)
  /\ reads' = reads + 1
  /\ UNCHANGED <<pc, config, regidx, grabbed, uinputs, repeat_tasks, objs,
                 inlog, out, gens, sigterms, normVars>>

\* the device is gone: the pump's read future gets an exception
InputFails(d) ==
  /\ Running
  /\ reads < MaxReads
  /\ d \in 1..Len(tasks)
  /\ tasks[d].kind = "pump" /\ tasks[d].state = "reading"
  /\ tasks' = [tasks EXCEPT ![d].state = "failing"]
  /\ ready' = Append(ready, d)
  /\ reads' = reads + 1
  /\ UNCHANGED <<pc, config, regidx, grabbed, uinputs, inbox, repeat_tasks,
                 objs, inlog, out, gens, sigterms, normVars>>

\* asyncio.sleep(rate) is over
TimerFires(t) ==
  /\ Running
  /\ t \in 1..Len(tasks)
  /\ tasks[t].kind = "repeat" /\ tasks[t].state = "sleeping"
  \* the model stops a task from starting a cycle beyond MaxCycles
  /\ tasks[t].cycles < MaxCycles \/ tasks[t].count = 0
  /\ tasks' = [tasks EXCEPT ![t].state = "ready"]
  /\ ready' = Append(ready, t)
  /\ UNCHANGED <<pc, config, regidx, grabbed, uinputs, inbox, repeat_tasks,
                 objs, inlog, out, gens, sigterms, reads, normVars>>

\* a step of handle_events
pump_step(st, t) ==
  LET s == st.tasks[t].state
      d == st.tasks[t].dev
  IN  CASE s = "cancelling" -> [st EXCEPT !.tasks[t].state = "cancelled"]
        [] s = "failing" -> [st EXCEPT !.tasks[t].state = "failed"]
        [] s = "new" -> [st EXCEPT !.tasks[t].state = "reading"]
        [] OTHER ->
             [handle_batch(st, inbox[d], 1, config[d].remappings, d, t)
                EXCEPT !.tasks[t].state = "reading"]

PumpStep ==
  /\ Running
  /\ ready # <<>>
  /\ Head(ready) # 0
  /\ tasks[Head(ready)].kind = "pump"
  /\ Commit(pump_step(State(tasks[Head(ready)].dev), Head(ready)),
            tasks[Head(ready)].dev)
  /\ UNCHANGED <<config, regidx, grabbed, uinputs, inbox, sigterms, reads,
                 normVars>>

\* a step of repeat_event
repeat_step(st, t) ==
  LET s == st.tasks[t].state
  IN  IF s = "cancelling"
      THEN [st EXCEPT !.tasks[t].state = "cancelled"]
      ELSE repeat_event(st, t, s = "new")

RepeatStep ==
  /\ Running
  /\ ready # <<>>
  /\ Head(ready) # 0
  /\ tasks[Head(ready)].kind = "repeat"
  /\ Commit(repeat_step(State(tasks[Head(ready)].dev), Head(ready)),
            tasks[Head(ready)].dev)
  /\ UNCHANGED <<config, regidx, grabbed, uinputs, inbox, sigterms, reads,
                 normVars>>

\* a step of shutdown
ShutdownStep ==
  /\ Running
  /\ ready # <<>>
  /\ Head(ready) # 0
  /\ tasks[Head(ready)].kind = "shutdown"
  /\ Commit(shutdown_step(State(1), Head(ready)), 1)
  /\ UNCHANGED <<config, regidx, grabbed, uinputs, inbox, sigterms, reads,
                 normVars>>

\* the done-callback of the Task given to run_until_complete (entry 0 of
\* ready) stops the loop, also when that Task was cancelled; run_loop's
\* finally closes the loop
RunUntilCompleteDone ==
  /\ Running
  /\ ready # <<>>
  /\ Head(ready) = 0
  /\ ready' = Tail(ready)
  /\ pc' = "closed"
  /\ UNCHANGED <<config, regidx, grabbed, uinputs, tasks, inbox, repeat_tasks,
                 objs, inlog, out, gens, sigterms, reads, normVars>>

\* SIGTERM: the handler is partial(ensure_future, shutdown(loop)), one
\* coroutine object for every delivery
Sigterm ==
  /\ pc = "run"
  /\ sigterms < MaxSigterm
  /\ sigterms' = sigterms + 1
  /\ tasks' = Append(tasks, ShutdownTask("sigterm"))
  /\ ready' = Append(ready, Len(tasks) + 1)
  /\ UNCHANGED <<pc, config, regidx, grabbed, uinputs, inbox, repeat_tasks,
                 objs, inlog, out, gens, reads, normVars>>

\* KeyboardInterrupt out of run_forever: remove_signal_handler, then
\* run_until_complete(ensure_future(shutdown(loop)))
KeyboardInterrupt ==
  /\ pc = "run"
  /\ pc' = "interrupted"
  /\ tasks' = Append(tasks, ShutdownTask("kbd"))
  /\ ready' = Append(ready, Len(tasks) + 1)
  /\ UNCHANGED <<config, regidx, grabbed, uinputs, inbox, repeat_tasks, objs,
                 inlog, out, gens, sigterms, reads, normVars>>

\* the engine without termination requests and device failures
Next ==
  \/ LoadConfig
  \/ RegisterDevice
  \/ RunForever
  \/ \E d \in Devices : \E batch \in DeviceBatches(d) : InputArrives(d, batch)
  \/ \E t \in 1..Len(tasks) : TimerFires(t)
  \/ PumpStep
  \/ RepeatStep

Spec == Init /\ [][Next]_vars

\* the same engine over the rule lists with two rules and the batches
\* FanBatches
InitFan == InitWith(FanConfigs)

NextFan ==
  \/ LoadConfig
  \/ RegisterDevice
  \/ RunForever
  \/ \E d \in Devices : \E batch \in FanBatches(d) : InputArrives(d, batch)
  \/ \E t \in 1..Len(tasks) : TimerFires(t)
  \/ PumpStep
  \/ RepeatStep

SpecFan == InitFan /\ [][NextFan]_vars

\* the whole life of run_loop: start-up errors, device failures, SIGTERM and
\* KeyboardInterrupt, over the configurations LifeConfigs and the batches LifeBatches
InitLife == InitWith(LifeConfigs)

NextLife ==
  \/ LoadConfig
  \/ RegisterFails
  \/ RegisterDevice
  \/ RunForever
  \/ \E d \in Devices : \E batch \in LifeBatches(d) : InputArrives(d, batch)
  \/ \E d \in Devices : InputFails(d)
  \/ \E t \in 1..Len(tasks) : TimerFires(t)
  \/ PumpStep
  \/ RepeatStep
  \/ ShutdownStep
  \/ RunUntilCompleteDone
  \/ Sigterm
  \/ KeyboardInterrupt

SpecLife == InitLife /\ [][NextLife]_vars

\* the engine with read failures and no termination request, over a rule
\* whose repeat task runs more than one cycle
InitFail == InitWith(ConfigsOf({RL_bounded}))

NextFail ==
  \/ LoadConfig
  \/ RegisterDevice
  \/ RunForever
  \/ \E d \in Devices : \E batch \in LifeBatches(d) : InputArrives(d, batch)
  \/ \E d \in Devices : InputFails(d)
  \/ \E t \in 1..Len(tasks) : TimerFires(t)
  \/ PumpStep
  \/ RepeatStep

SpecFail == InitFail /\ [][NextFail]_vars

(***************************************************************************)
(* SpecNorm: normalize_config and resolve_ecodes as load_config applies    *)
(* them to one device's remappings, and normalize_config applied again to  *)
(* its own result.                                                         *)
(***************************************************************************)
\* rule objects: code KEY_A, a value that is absent, null, a scalar or a
\* list, and nothing else, an unknown key or a type
NormDicts ==
  {d @@ o : d \in {[code |-> "KEY_A"],
                   [code |-> "KEY_A", value |-> NoneValue],
                   [code |-> "KEY_A", value |-> IntValue(1)],
                   [code |-> "KEY_A", value |-> ListValue(<<1, 2>>)]},
            o \in {EmptyDict, [param1 |-> "p1"], [type |-> "EV_KEY"]}}

NormMappings ==
  {StrMapping(n) : n \in {"KEY_A", "KEY_B"}} \cup {DictMapping(d) : d \in NormDicts}

NormLists(n) == UNION {[1..k -> NormMappings] : k \in 0..n}

InitNorm ==
  /\ npc = "start"
  /\ \E l1 \in NormLists(MaxRules), l2 \in NormLists(1) :
       nraw = [KEY_1 |-> l1, KEY_C |-> l2]
  /\ nnorm = EmptyDict /\ nagain = EmptyDict /\ nloaded = EmptyDict
  /\ pc = "off"
  /\ config = <<>>
  /\ regidx = 0
  /\ grabbed = {}
  /\ uinputs = {}
  /\ tasks = <<>>
  /\ ready = <<>>
  /\ inbox = <<>>
  /\ repeat_tasks = EmptyDict
  /\ objs = <<>>
  /\ inlog = <<>>
  /\ out = <<>>
  /\ gens = <<>>
  /\ sigterms = 0
  /\ reads = 0

\* device['remappings'] = normalize_config(device['remappings'])
Normalize ==
  /\ npc = "start"
  /\ nnorm' = normalize_config(nraw)
  /\ npc' = "normalized"
  /\ UNCHANGED <<nraw, nagain, nloaded, engineVars>>

\* normalize_config applied to its own result
NormalizeAgain ==
  /\ npc = "normalized"
  /\ nagain' = normalize_config(nnorm)
  /\ npc' = "again"
  /\ UNCHANGED <<nraw, nnorm, nloaded, engineVars>>

\* device['remappings'] = resolve_ecodes(device['remappings'])
Resolve ==
  /\ npc = "again"
  /\ nloaded' = resolve_ecodes(nnorm)
  /\ npc' = "loaded"
  /\ UNCHANGED <<nraw, nnorm, nagain, engineVars>>

NextNorm == Normalize \/ NormalizeAgain \/ Resolve

SpecNorm == InitNorm /\ [][NextNorm]_vars

(***************************************************************************)
(* Properties.                                                             *)
(***************************************************************************)
RepeatTasks == {t \in 1..Len(tasks) : tasks[t].kind = "repeat"}
Workers == {t \in 1..Len(tasks) : tasks[t].kind \in {"pump", "repeat"}}

\* neither finished nor asked to cancel
Live(t) == tasks[t].state \in {"new", "reading", "sleeping", "ready", "failing"}

\* the rule a repeat task was started for
RuleOf(t) == config[tasks[t].dev].remappings[tasks[t].src][tasks[t].rule].d

HasRepeat(r) == Truthy(Get(r, "repeat", BoolRepeat(FALSE)))

\* the events a task wrote, in order
EvEntries(t) ==
  SelectSeq(out[tasks[t].dev], LAMBDA x : x.k = "ev" /\ x.by = t)

IsRelease(e, d, c) ==
  /\ inlog[e].dev = d
  /\ inlog[e].type = EV_KEY
  /\ inlog[e].code = c
  /\ inlog[e].value = 0

\* C1 (the claim as stated): for a rule with ignore_depress and a repeat of
\* count 0, once a release of the source code has been processed after the
\* press that started the repeat task, nothing was written for the release
\* and the task is cancelled (or over), so it writes nothing further.
C1_ReleaseCancelsIgnoredRepeat ==
  \A t \in RepeatTasks : \A e \in 1..Len(inlog) :
    ( /\ Get(RuleOf(t), "ignore_depress", FALSE)
      /\ HasRepeat(RuleOf(t))
      /\ Get(RuleOf(t), "count", 0) = 0
      /\ e > tasks[t].obj
      /\ IsRelease(e, tasks[t].dev, tasks[t].src) )
    => /\ ~Live(t)
       /\ \A i \in DOMAIN out[tasks[t].dev] : out[tasks[t].dev][i].src # e

\* C2 (the claim as stated): in every reachable state, at most one repeat
\* task that is neither cancelled nor finished was spawned by events of a
\* given source code of a device.
C2_AtMostOneRepeatPerSource ==
  \A t1, t2 \in RepeatTasks :
    ( /\ tasks[t1].dev = tasks[t2].dev
      /\ tasks[t1].src = tasks[t2].src
      /\ Live(t1) /\ Live(t2) )
    => t1 = t2

\* C3 (the claim as stated): once shutdown has stopped the loop, every
\* device register_device grabbed is ungrabbed and every UInput is destroyed.
C3_ShutdownReleasesDevices ==
  pc = "closed" => grabbed = {} /\ uinputs = {}

\* C4: once a shutdown has asked for cancellation, every pump and every
\* repeat task is finished or has its cancellation pending, nothing is
\* written to any output any more and no task is created; and the loop is
\* stopped only when all of them are finished.
CancelRequested == \E g \in DOMAIN gens : gens[g].state # "fresh"

C4_Cancelled ==
  /\ CancelRequested =>
       \A t \in Workers : tasks[t].state \in Final \cup {"cancelling"}
  /\ pc = "closed" => \A t \in Workers : tasks[t].state \in Final

C4_Quiet ==
  CancelRequested =>
    /\ out' = out
    /\ {t \in 1..Len(tasks') : tasks'[t].kind \in {"pump", "repeat"}} = Workers

C4_ShutdownCancelsAll == [](C4_Cancelled) /\ [][C4_Quiet]_vars

\* a loop stopped by shutdown with a repeat task that shutdown cancelled
\* (its registry entry is still there: no release or press removed it)
C4_Witness ==
  /\ pc = "closed"
  /\ \E t \in RepeatTasks :
       /\ tasks[t].state = "cancelled"
       /\ Get(repeat_tasks, tasks[t].key, 0) = t
  /\ \E t \in Workers : tasks[t].kind = "pump" /\ tasks[t].state = "cancelled"

\* the count of a rule, were the count of a repeat object read
ConfiguredCount(r) ==
  LET repeat == Get(r, "repeat", BoolRepeat(FALSE))
  IN  IF repeat.tag = "dict" /\ "count" \in DOMAIN repeat.d
      THEN repeat.d["count"]
      ELSE Get(r, "count", 0)

\* a repeat task against the count n: it wrote whole cycles through its
\* values; for n > 0 it never runs more than n cycles, its counter went down
\* by one per cycle, and it is done only after n cycles; for n = 0 it is
\* never done
CyclesAgainst(t, n) ==
  /\ Len(EvEntries(t)) = tasks[t].cycles * Len(tasks[t].values)
  /\ \A j \in 1..Len(EvEntries(t)) :
       EvEntries(t)[j].value =
         tasks[t].values[((j - 1) % Len(tasks[t].values)) + 1]
  /\ n > 0 => /\ tasks[t].cycles <= n
              /\ tasks[t].count = n - tasks[t].cycles
              /\ tasks[t].state = "done" => tasks[t].cycles = n
  /\ n = 0 => tasks[t].state # "done"

OrderedFanOut(Cond(_)) ==
  \A d \in DOMAIN out : \A i, j \in DOMAIN out[d] :
    ( /\ i < j
      /\ out[d][i].src = out[d][j].src
      /\ Cond(out[d][i].src) )
    => ~(out[d][i].rule = 2 /\ out[d][j].rule = 1)

AnyEvent(e) == TRUE

\* the first rule of the list the event e was remapped by has no repeat
FirstRuleImmediate(e) ==
  ~HasRepeat(config[inlog[e].dev].remappings[inlog[e].code][1].d)

\* C6 (the claim as stated): for rules [A, B] of whatever kind, every output
\* written for A by an input event comes before every output written for B
\* by it.
C6_FanOutOrderAnyRules == OrderedFanOut(AnyEvent)

\* C6 (amended): for rules [A, B] where A has no repeat policy (B of whatever
\* kind), every output written for A by an input event comes before every
\* output written for B by it.
C6_FanOutOrderImmediateFirst == OrderedFanOut(FirstRuleImmediate)

\* the pump wrote for A and then a repeat task wrote for B, for one event
C6_Witness ==
  \E i, j \in DOMAIN out[1] :
    /\ i < j
    /\ out[1][i].src = out[1][j].src
    /\ out[1][i].rule = 1 /\ out[1][i].by = 1
    /\ out[1][j].rule = 2 /\ out[1][j].by \in RepeatTasks

\* the event is one handle_events forwards unchanged
PassThrough(ev) ==
  ~(ev.type = EV_KEY /\ ev.code \in DOMAIN config[ev.dev].remappings)

C7_Forwarded ==
  \A e \in 1..Len(inlog) :
    PassThrough(inlog[e]) =>
      LET d == inlog[e].dev
          written == {i \in DOMAIN out[d] : out[d][i].src = e /\ out[d][i].k = "ev"}
      IN  /\ Cardinality(written) = 1
          /\ \A i \in written :
               /\ out[d][i].type = inlog[e].type
               /\ out[d][i].code = inlog[e].code
               /\ out[d][i].value = inlog[e].value
               /\ i + 1 \in DOMAIN out[d]
               /\ out[d][i + 1].k = "syn" /\ out[d][i + 1].src = e
          /\ \A d2 \in DOMAIN out \ {d} : \A i \in DOMAIN out[d2] : out[d2][i].src # e
          /\ \A t \in RepeatTasks : tasks[t].obj # e

C7_RegistryKept ==
  ( /\ Len(inlog') > Len(inlog)
    /\ \A e \in (Len(inlog) + 1)..Len(inlog') : PassThrough(inlog'[e]) )
  => /\ repeat_tasks' = repeat_tasks
     /\ Len(tasks') = Len(tasks)
     /\ \A t \in RepeatTasks : tasks'[t] = tasks[t]

\* C7: every event read that is not a KEY event with a code of the remap
\* table is written once to its device's output with the type, code and
\* value it was read with, followed by output.syn(); it starts no repeat
\* task, and a step that reads only such events leaves repeat_tasks and
\* every repeat task as they were.
C7_PassThroughIdentity == [](C7_Forwarded) /\ [][C7_RegistryKept]_vars

\* a non-key event whose code number is in the table, forwarded while a
\* repeat task is registered
C7_Witness ==
  /\ Len(inlog) = 2
  /\ inlog[2] = [dev |-> 1, type |-> EV_REL, code |-> KEY_1, value |-> 1]
  /\ \E i \in DOMAIN out[1] : out[1][i].src = 2 /\ out[1][i].type = EV_REL
  /\ KEY_1 \in DOMAIN repeat_tasks

\* C8 (the claim as stated): a step of one device's pump that reads events
\* leaves every repeat task started for another device as it was.
C8_OtherDevicesTasksKept ==
  ( /\ Len(inlog') > Len(inlog)
    /\ ready # <<>> )
  => \A t \in RepeatTasks :
       tasks[t].dev # tasks[Head(ready)].dev => tasks'[t] = tasks[t]

C8_RegistryPerDevice == [][C8_OtherDevicesTasksKept]_vars

\* C9: normalize_config applied to its own result returns that result.
C9_NormalizeIdempotent == npc \in {"again", "loaded"} => nagain = nnorm

\* normalisation changed a bare string and a scalar value, and a second
\* pass changed nothing
C9_Witness ==
  /\ npc = "again"
  /\ nraw["KEY_1"] = <<StrMapping("KEY_B"),
                       DictMapping([code |-> "KEY_A", value |-> IntValue(1)])>>
  /\ nnorm["KEY_1"][1] = DictMapping([code |-> "KEY_B"])
  /\ nnorm["KEY_1"][2].d["value"] = ListValue(<<1>>)
  /\ nagain = nnorm

\* what normalisation makes of one element of a rule list
NormalFormOf(raw, norm) ==
  IF raw.tag = "str"
  THEN norm = DictMapping([code |-> raw.name])
  ELSE /\ norm.tag = "dict"
       /\ DOMAIN norm.d = DOMAIN raw.d
       /\ \A k \in DOMAIN raw.d \ {"value"} : norm.d[k] = raw.d[k]
       /\ "value" \in DOMAIN raw.d =>
            norm.d["value"] = IF raw.d["value"].tag = "int"
                              THEN ListValue(raw.d["value"].items)
                              ELSE raw.d["value"]

\* C10: the normalisation load_config does maps, rule by rule and in order,
\* a bare name X to {code: X} (as it maps the object {code: X}), a scalar
\* value v to [v], a list value and every other key to themselves; and
\* load_config gives a bare name and the object {code: X} the same rule.
C10_NormalForm ==
  /\ npc # "start" =>
       /\ DOMAIN nnorm = DOMAIN nraw
       /\ \A key \in DOMAIN nraw :
            /\ Len(nnorm[key]) = Len(nraw[key])
            /\ \A i \in 1..Len(nraw[key]) :
                 NormalFormOf(nraw[key][i], nnorm[key][i])
  /\ npc = "loaded" =>
       \A k1, k2 \in DOMAIN nraw :
         \A i \in 1..Len(nraw[k1]), j \in 1..Len(nraw[k2]) :
           ( /\ nraw[k1][i].tag = "str"
             /\ nraw[k2][j] = DictMapping([code |-> nraw[k1][i].name]) )
           => /\ nloaded[ecodes[k1]][i] = nloaded[ecodes[k2]][j]
              /\ nloaded[ecodes[k1]][i].d = [code |-> ecodes[nraw[k1][i].name]]

\* a bare name, then the same name as an object with a scalar value and an
\* unknown key
C10_Witness ==
  /\ npc = "loaded"
  /\ nraw["KEY_1"] = <<StrMapping("KEY_A"),
                       DictMapping([code |-> "KEY_A", value |-> IntValue(1),
                                    param1 |-> "p1"])>>
  /\ nraw["KEY_C"] = <<DictMapping([code |-> "KEY_A"])>>
  /\ nloaded[ecodes["KEY_1"]][2].d =
       [code |-> 30, value |-> ListValue(<<1>>), param1 |-> "p1"]
  /\ nloaded[ecodes["KEY_C"]] = <<nloaded[ecodes["KEY_1"]][1]>>

\* the pumps
Pumps == {t \in 1..Len(tasks) : tasks[t].kind = "pump"}

\* C11 (the claim as stated): when a device's read has failed and its pump
\* has terminated, and the loop has run every callback that was scheduled,
\* that device's grab is released and its UInput destroyed; and no pump
\* terminates but by a read of its own (there are no more failed pumps than
\* reads).
C11_FailedPumpReleasesDevice ==
  /\ \A t \in Pumps :
       (tasks[t].state = "failed" /\ ready = <<>>)
       => /\ tasks[t].dev \notin grabbed
          /\ tasks[t].dev \notin uinputs
  /\ Cardinality({t \in Pumps : tasks[t].state \in Final}) <= reads

\* C12 (the claim as stated): once the pump of a device has terminated,
\* no step writes to that device's output any more.
C12_PumpOverOutputQuiet ==
  \A t \in Pumps :
    tasks[t].state \in Final => out'[tasks[t].dev] = out[tasks[t].dev]

C12_NoRepeatOutlivesPump == [][C12_PumpOverOutputQuiet]_vars

\* C13 (the claim as stated): when run_loop has ended with a configuration
\* error, no device has been grabbed.
C13_ConfigErrorBeforeGrab ==
  pc = "error" => grabbed = {}

\* the rule list the event e was remapped by, and its i-th rule
RulesFor(e) == config[inlog[e].dev].remappings[inlog[e].code]
RuleAt(e, i) == RulesFor(e)[i].d

\* what rule r makes of the event ev as it was read
TypeFrom(r, ev) ==
  IF Get(r, "type", 0) # 0 THEN r["type"] ELSE ev.type

ValuesFrom(r, ev) ==
  LET value == Get(r, "value", NoneValue)
  IN  IF value.tag = "list" /\ value.items # <<>>
      THEN value.items ELSE <<ev.value>>

\* C14 (the claim as stated): whatever a rule emits for an event, itself or
\* by its repeat task, has the rule's code, the rule's type or else the type
\* read, and one of the rule's values or else the value read; a repeat task
\* is started, and a rule with ignore_depress fires, only for a value read
\* of 1.
C14_RulesIndependent ==
  /\ \A d \in DOMAIN out : \A i \in DOMAIN out[d] :
       (out[d][i].k = "ev" /\ out[d][i].rule > 0) =>
         LET ev == inlog[out[d][i].src]
             r == RuleAt(out[d][i].src, out[d][i].rule)
         IN  /\ out[d][i].code = r["code"]
             /\ out[d][i].type = TypeFrom(r, ev)
             /\ \E j \in DOMAIN ValuesFrom(r, ev) :
                  out[d][i].value = ValuesFrom(r, ev)[j]
             /\ Get(r, "ignore_depress", FALSE) => ev.value = 1
  /\ \A t \in RepeatTasks :
       /\ inlog[tasks[t].obj].value = 1
       /\ tasks[t].values = ValuesFrom(RuleAt(tasks[t].obj, tasks[t].rule),
                                       inlog[tasks[t].obj])

\* C15 (the claim as stated): every repeat task is registered under the
\* code its event had when it was read.
C15_RegistryKeyIsSourceCode ==
  \A t \in RepeatTasks : tasks[t].key = inlog[tasks[t].obj].code

\* C16 (the claim as stated): for a release read, a rule with ignore_depress
\* writes nothing, and every later rule of the list without ignore_depress
\* has fired: a plain rule wrote its output for the release, a repeat rule
\* left no task of an earlier event of that source code alive.
C16_OnlyIgnoringRuleSkipped ==
  \A e \in 1..Len(inlog) :
    ( /\ inlog[e].type = EV_KEY
      /\ inlog[e].value = 0
      /\ inlog[e].code \in DOMAIN config[inlog[e].dev].remappings )
    => \A i \in 1..Len(RulesFor(e)) :
         Get(RuleAt(e, i), "ignore_depress", FALSE) =>
           /\ \A x \in DOMAIN out[inlog[e].dev] :
                ~(out[inlog[e].dev][x].src = e /\ out[inlog[e].dev][x].rule = i)
           /\ \A j \in (i + 1)..Len(RulesFor(e)) :
                ~Get(RuleAt(e, j), "ignore_depress", FALSE) =>
                  IF HasRepeat(RuleAt(e, j))
                  THEN \A t \in RepeatTasks :
                         ( /\ tasks[t].dev = inlog[e].dev
                           /\ tasks[t].src = inlog[e].code
                           /\ tasks[t].rule = j
                           /\ tasks[t].obj < e ) => ~Live(t)
                  ELSE \E x \in DOMAIN out[inlog[e].dev] :
                         /\ out[inlog[e].dev][x].src = e
                         /\ out[inlog[e].dev][x].rule = j

\* C17: in every output, every event written, by the pump (forwarded or
\* remapped) or by a repeat task, is directly followed by the syn() of the
\* same writer for the same input event.
C17_EventThenSyn ==
  \A d \in DOMAIN out : \A i \in DOMAIN out[d] :
    out[d][i].k = "ev" =>
      /\ i + 1 \in DOMAIN out[d]
      /\ out[d][i + 1].k = "syn"
      /\ out[d][i + 1].by = out[d][i].by
      /\ out[d][i + 1].src = out[d][i].src

\* the pump forwarded an event between two cycles of a repeat task that
\* writes two values per cycle
C17_Witness ==
  \E i, j, k \in DOMAIN out[1] :
    /\ i < j /\ j < k
    /\ out[1][i].k = "ev" /\ out[1][i].by \in RepeatTasks
    /\ out[1][j].k = "ev" /\ out[1][j].rule = 0
    /\ out[1][k].k = "ev" /\ out[1][k].by = out[1][i].by
    /\ Len(tasks[out[1][i].by].values) = 2

\* the x-th write to the output of d is written by the pump, or belongs to
\* the first cycle of the repeat task that wrote it
Direct(d, x) ==
  LET t == out[d][x].by
  IN  tasks[t].kind = "repeat" =>
        Cardinality({y \in 1..x : out[d][y].by = t}) <= 2 * Len(tasks[t].values)

\* C18 (the claim as stated): in the output of a device, nothing written
\* for a later-read event comes before what the pump or the first cycle of
\* a repeat task writes for an earlier-read event.
C18_OutputsFollowReadOrder ==
  \A d \in DOMAIN out : \A i, j \in DOMAIN out[d] :
    (i < j /\ Direct(d, j)) => out[d][i].src <= out[d][j].src

\* the Tasks wrapping a shutdown coroutine
Shutdowns == {t \in 1..Len(tasks) : tasks[t].kind = "shutdown"}

\* C19 (the claim as stated): a termination signal during or after a
\* shutdown changes nothing: no shutdown Task ends cancelled or with an
\* error, and once termination was requested and the loop has nothing left
\* to run, the loop has been stopped.
C19_SecondSignalIsNoOp ==
  /\ \A t \in Shutdowns : tasks[t].state \notin {"cancelled", "failed"}
  /\ (Shutdowns # {} /\ ready = <<>> /\ \A t \in Workers : tasks[t].state \in Final)
     => pc = "closed"

\* the pump whose step is next reads a batch that starts with a key event of
\* code c
NextReadsKey(c) ==
  /\ ready # <<>>
  /\ Head(ready) # 0
  /\ tasks[Head(ready)].kind = "pump"
  /\ tasks[Head(ready)].state = "ready"
  /\ inbox[tasks[Head(ready)].dev][1].type = EV_KEY
  /\ inbox[tasks[Head(ready)].dev][1].code = c

\* the presses of code c in the batch
PressesOf(batch, c) ==
  {j \in DOMAIN batch :
     batch[j].type = EV_KEY /\ batch[j].code = c /\ batch[j].value = 1}

\* the last key event of code c in the batch is a press
EndsPressed(batch, c) ==
  \E j \in PressesOf(batch, c) :
    \A x \in DOMAIN batch :
      (batch[x].type = EV_KEY /\ batch[x].code = c) => x <= j

C20_FinishedTaskUntouched ==
  \A t \in RepeatTasks :
    ( /\ tasks[t].state = "done"
      /\ Get(repeat_tasks, tasks[t].key, 0) = t
      /\ NextReadsKey(tasks[t].key)
      /\ Len(inlog') > Len(inlog) )
    => LET p == Head(ready)
           batch == inbox[tasks[p].dev]
           new == (Len(tasks) + 1)..Len(tasks')
       IN  /\ tasks'[t] = tasks[t]
           /\ tasks'[p].state = "reading"
           /\ \A x \in (Len(out[tasks[t].dev]) + 1)..Len(out'[tasks[t].dev]) :
                out'[tasks[t].dev][x].by # t
           /\ Len(tasks') - Len(tasks) = Cardinality(PressesOf(batch, tasks[t].key))
           /\ Cardinality({n \in new : tasks'[n].state = "new"}) <= 1
           /\ EndsPressed(batch, tasks[t].key) =>
                /\ Get(repeat_tasks', tasks[t].key, 0) = Len(tasks')
                /\ tasks'[Len(tasks')].state = "new"

\* C20: a press or release that finds in repeat_tasks a task that ended by
\* itself leaves that task as it is, raises no error (the pump goes on to
\* its next read) and writes nothing by that task; every press of the batch
\* starts one task,
\* of which at most the last is left running, and when the last key event
\* of the batch is a press the registry holds that press's task.
C20_CancelFinishedIsNoOp == [][C20_FinishedTaskUntouched]_vars

\* a task that ran its two cycles and ended, replaced in the registry by
\* the task of a later press
C20_Witness ==
  \E t1, t2 \in RepeatTasks :
    /\ t1 < t2
    /\ tasks[t1].state = "done" /\ tasks[t1].cycles = 2
    /\ Len(EvEntries(t1)) = 4
    /\ tasks[t2].key = tasks[t1].key
    /\ Get(repeat_tasks, tasks[t1].key, 0) = t2

====
